---- MODULE Spec2Model ----
(***************************************************************************)
(* Model of the PCN / Cap3D caption reconciliation scripts:                *)
(*   analyze_pcn_captions.py   (load_caption_data, get_pcn_instances,      *)
(*                              analyze_missing_captions,                  *)
(*                              print_detailed_report,                     *)
(*                              save_detailed_results, main)               *)
(*   quick_caption_summary.py  (quick_summary)                             *)
(*   data/PCN/cap3d_to_json.py (the CSV -> JSON conversion script)         *)
(*                                                                         *)
(* A string is a sequence of one-character strings, so that strip(),       *)
(* split('_') and the f-string "{class_id}_{instance_id}" are computed.    *)
(* A Python dict is an insertion-ordered sequence of [k, v] records.       *)
(***************************************************************************)
EXTENDS Integers, Sequences, FiniteSets, TLC

(***************************************************************************)
(* Bounds of the model                                                     *)
(***************************************************************************)
\* rows of the caption table
MaxRows == 2

(***************************************************************************)
(* Strings                                                                 *)
(***************************************************************************)
US == "_"
SP == " "

\* str.strip(): leading and trailing whitespace removed
RECURSIVE LStrip(_)
LStrip(s) == IF s # <<>> /\ Head(s) = SP THEN LStrip(Tail(s)) ELSE s

RECURSIVE RStrip(_)
RStrip(s) ==
  IF s # <<>> /\ s[Len(s)] = SP THEN RStrip(SubSeq(s, 1, Len(s) - 1)) ELSE s

Strip(s) == RStrip(LStrip(s))

\* s.split('_')[0]: the part before the first underscore, all of s if none
RECURSIVE SplitFirst(_)
SplitFirst(s) ==
  IF s = <<>> \/ Head(s) = US THEN <<>> ELSE <<Head(s)>> \o SplitFirst(Tail(s))

\* f"{class_id}_{instance_id}"
FullId(class_id, instance_id) == class_id \o <<US>> \o instance_id

(***************************************************************************)
(* Python containers                                                       *)
(***************************************************************************)
Range(s) == {s[i] : i \in 1..Len(s)}

\* dict: insertion-ordered sequence of [k |-> key, v |-> value]
DictKeys(d) == {d[i].k : i \in 1..Len(d)}
DictHas(d, key) == key \in DictKeys(d)
DictGet(d, key) == d[CHOOSE i \in 1..Len(d) : d[i].k = key].v
\* d[key] = val: an existing key keeps its position, a new key is appended
DictSet(d, key, val) ==
  IF DictHas(d, key)
  THEN [i \in 1..Len(d) |-> IF d[i].k = key THEN [k |-> key, v |-> val] ELSE d[i]]
  ELSE Append(d, [k |-> key, v |-> val])

splits == <<"test", "train", "val">>
Splits == Range(splits)

(***************************************************************************)
(* Inputs: the caption table (a CSV file) and the dataset tree             *)
(***************************************************************************)
\* the rows csv.reader yields: each a list of fields
RowPool ==
  { << <<"a", US, "c">>, <<"x">> >>,
    << <<SP, "a", US, "c", SP>>, <<SP, "y", SP>> >>,
    << <<"a", US, "b", US, "c">>, <<"x">> >>,
    << <<"a">>, <<"x">>, <<"y">> >>,
    << <<"a", US, "c">> >> }

SeqsUpTo(S, n) == UNION {[1..k -> S] : k \in 0..n}

Tables == SeqsUpTo(RowPool, MaxRows)

\* a file of a category directory: its name is stem + "." + ext
File(stem, ext) == [stem |-> stem, ext |-> ext]
\* an entry of <root>/<split>/complete: a category directory with its files in
\* glob order, or something that is no directory
Dir(name, files) == [name |-> name, isDir |-> TRUE, files |-> files]
NoDir(name) == [name |-> name, isDir |-> FALSE, files |-> <<>>]
\* <root>/<split>/complete: absent, or a directory with its entries in iterdir order
Complete(entries) == [exists |-> TRUE, entries |-> entries]
Missing == [exists |-> FALSE, entries |-> <<>>]

TreePool ==
  { Missing,
    \* a category directory that holds no point cloud
    Complete(<<Dir(<<"a">>, <<File(<<"c">>, "txt")>>)>>),
    \* two instances, a file that is no point cloud, an entry that is no directory
    Complete(<<NoDir(<<"b">>),
               Dir(<<"a">>, <<File(<<"b", US, "c">>, "pcd"), File(<<"c">>, "txt"),
                              File(<<"c">>, "pcd")>>)>>),
    \* two categories whose instances have the same full id a_b_c
    Complete(<<Dir(<<"a", US, "b">>, <<File(<<"c">>, "pcd")>>),
               Dir(<<"a">>, <<File(<<"b", US, "c">>, "pcd")>>)>>) }

Datasets == [test : TreePool, train : TreePool, val : TreePool]

(***************************************************************************)
(* State                                                                   *)
(***************************************************************************)
VARIABLES
  csv_file,          \* the caption table: the rows csv.reader yields
  pcn_path,          \* the dataset tree: split -> its 'complete' directory
  prog,              \* the script running: "", "analyze", "quick", "cap3d"
  pc,                \* where the script is
  captions,          \* dict: instance id -> caption
  class_ids_csv,     \* set of class ids of the caption table
  rows_read,         \* rows the reader yielded before it ended or raised
  load_failed,       \* load_caption_data printed "Error loading CSV file"
  pcn_instances,     \* split -> dict: class id -> list of instance ids
  class_ids_pcn,     \* set of class ids of the dataset tree
  warned,            \* splits get_pcn_instances warned about
  results,           \* what analyze_missing_captions returns
  report,            \* the statistics lines printed, in order
  exc,               \* the exception that ended the script, "" if none
  saved,             \* the files save_detailed_results wrote
  json_file,         \* the dict cap3d_to_json dumped
  prev_captions      \* the caption dict of the previous complete load

vars == <<csv_file, pcn_path, prog, pc, captions, class_ids_csv, rows_read, load_failed,
          pcn_instances, class_ids_pcn, warned, results, report, exc, saved,
          json_file, prev_captions>>

inputs == <<csv_file, pcn_path>>

EmptyBySplit == [test |-> <<>>, train |-> <<>>, val |-> <<>>]

NoResults ==
  [pcn_without_caption |-> EmptyBySplit, caption_without_pcn |-> <<>>,
   stats_by_split |-> EmptyBySplit, total_stats |-> <<>>]

NoSaved == [written |-> {}, by_split |-> EmptyBySplit, captions_without_pcn |-> <<>>]

\* what a run starts from: nothing loaded, nothing printed
Fresh ==
  /\ prog = ""
  /\ pc = "start"
  /\ captions = <<>>
  /\ class_ids_csv = {}
  /\ rows_read = 0
  /\ load_failed = FALSE
  /\ pcn_instances = EmptyBySplit
  /\ class_ids_pcn = {}
  /\ warned = {}
  /\ results = NoResults
  /\ report = <<>>
  /\ exc = ""
  /\ saved = NoSaved
  /\ json_file = <<>>

Init ==
  /\ csv_file \in Tables
  /\ pcn_path \in Datasets
  /\ Fresh
  /\ prev_captions = [known |-> FALSE, dict |-> <<>>]

(***************************************************************************)
(* load_caption_data                                                       *)
(***************************************************************************)
\* LoadRow, had it kept the first caption of an identifier
LoadRow_FirstWins(acc, row) ==
  IF Len(row) >= 2 /\ ~DictHas(acc.captions, Strip(row[1]))
  THEN [captions |-> DictSet(acc.captions, Strip(row[1]), Strip(row[2])),
        class_ids |-> acc.class_ids \cup {SplitFirst(Strip(row[1]))}]
  ELSE acc

\* one pass of the loop body over a row: rows of fewer than two fields are skipped
LoadRow(acc, row) ==
  IF Len(row) >= 2
  THEN LET instance_id == Strip(row[1])
           caption == Strip(row[2])
       IN [captions |-> DictSet(acc.captions, instance_id, caption),
           class_ids |-> acc.class_ids \cup {SplitFirst(instance_id)}]
  ELSE acc

RECURSIVE LoadRows(_, _)
LoadRows(acc, rows) ==
  IF rows = <<>> THEN acc ELSE LoadRows(LoadRow(acc, Head(rows)), Tail(rows))

\* the try block: `good` rows are read, then open()/the reader raises if `raises`
TryLoad(rows, raises, good) ==
  LET acc == LoadRows([captions |-> <<>>, class_ids |-> {}], SubSeq(rows, 1, good))
  IN [captions |-> acc.captions, class_ids |-> acc.class_ids, raised |-> raises]

\* load_caption_data, had the except clause returned the partly filled containers
load_caption_data_Partial(rows, raises, good) ==
  LET t == TryLoad(rows, raises, good)
  IN [captions |-> t.captions, class_ids |-> t.class_ids, failed |-> t.raised]

\* the except clause returns fresh empty containers, not the partly filled ones
load_caption_data(rows, raises, good) ==
  LET t == TryLoad(rows, raises, good)
  IN IF t.raised
     THEN [captions |-> <<>>, class_ids |-> {}, failed |-> TRUE]
     ELSE [captions |-> t.captions, class_ids |-> t.class_ids, failed |-> FALSE]

\* how reading the table can go: all rows read, or an error after `good` rows
Readings(rows) ==
  {[raises |-> FALSE, good |-> Len(rows)]}
    \cup {[raises |-> TRUE, good |-> g] : g \in 0..Len(rows)}

LoadCaptionData ==
  /\ pc = "start"
  /\ \E r \in Readings(csv_file) :
       LET l == load_caption_data(csv_file, r.raises, r.good)
       IN /\ captions' = l.captions
          /\ class_ids_csv' = l.class_ids
          /\ rows_read' = r.good
          /\ load_failed' = l.failed
  /\ prog' = "analyze"
  /\ pc' = "loaded"
  /\ UNCHANGED <<inputs, pcn_instances, class_ids_pcn, warned, results, report,
                 exc, saved, json_file, prev_captions>>

(***************************************************************************)
(* get_pcn_instances                                                       *)
(***************************************************************************)
\* [f.stem for f in class_dir.glob('*.pcd')]
RECURSIVE PcdStems(_)
PcdStems(files) ==
  IF files = <<>> THEN <<>>
  ELSE (IF Head(files).ext = "pcd" THEN <<Head(files).stem>> ELSE <<>>)
         \o PcdStems(Tail(files))

\* the loop over class_dirs of one split; entries that are no directory are left out
RECURSIVE ScanEntries(_, _)
ScanEntries(acc, entries) ==
  IF entries = <<>> THEN acc
  ELSE LET d == Head(entries)
       IN ScanEntries(
            IF d.isDir
            THEN [dict |-> DictSet(acc.dict, d.name, PcdStems(d.files)),
                  class_ids |-> acc.class_ids \cup {d.name}]
            ELSE acc,
            Tail(entries))

\* one split: a missing 'complete' directory is warned about and skipped
ScanSplit(tree) ==
  IF ~tree.exists
  THEN [dict |-> <<>>, class_ids |-> {}]
  ELSE ScanEntries([dict |-> <<>>, class_ids |-> {}], tree.entries)

\* get_pcn_instances, had a missing split ended the loop (break for continue)
get_pcn_instances_Break(path) ==
  LET reached(s) == \A i \in 1..Len(splits) :
                      (\A j \in 1..i : splits[j] # s) => path[splits[i]].exists
  IN [instances |-> [s \in Splits |->
                       IF reached(s) THEN ScanSplit(path[s]).dict ELSE <<>>],
      class_ids |-> UNION {IF reached(s) THEN ScanSplit(path[s]).class_ids ELSE {} :
                           s \in Splits},
      warned |-> {s \in Splits : ~path[s].exists /\ reached(s)}]

get_pcn_instances(path) ==
  [instances |-> [s \in Splits |-> ScanSplit(path[s]).dict],
   class_ids |-> UNION {ScanSplit(path[s]).class_ids : s \in Splits},
   warned |-> {s \in Splits : ~path[s].exists}]

GetPcnInstances ==
  /\ pc = "loaded"
  /\ LET g == get_pcn_instances(pcn_path)
     IN /\ pcn_instances' = g.instances
        /\ class_ids_pcn' = g.class_ids
        /\ warned' = g.warned
  /\ pc' = "scanned"
  /\ UNCHANGED <<inputs, prog, captions, class_ids_csv, rows_read, load_failed, results,
                 report, exc, saved, json_file, prev_captions>>

(***************************************************************************)
(* analyze_missing_captions                                                *)
(***************************************************************************)
\* PartitionIds, had it put each id at the front of its list
RECURSIVE PartitionIds_Prepend(_, _, _, _)
PartitionIds_Prepend(acc, class_id, instance_ids, caps) ==
  IF instance_ids = <<>> THEN acc
  ELSE PartitionIds_Prepend(
         IF DictHas(caps, FullId(class_id, Head(instance_ids)))
         THEN [acc EXCEPT !.with_captions = <<Head(instance_ids)>> \o @]
         ELSE [acc EXCEPT !.missing_captions = <<Head(instance_ids)>> \o @],
         class_id, Tail(instance_ids), caps)

\* the inner loop: instance ids with and without a caption, in list order
RECURSIVE PartitionIds(_, _, _, _)
PartitionIds(acc, class_id, instance_ids, caps) ==
  IF instance_ids = <<>> THEN acc
  ELSE LET instance_id == Head(instance_ids)
           full_instance_id == FullId(class_id, instance_id)
       IN PartitionIds(
            IF DictHas(caps, full_instance_id)
            THEN [acc EXCEPT !.with_captions = Append(@, instance_id)]
            ELSE [acc EXCEPT !.missing_captions = Append(@, instance_id)],
            class_id, Tail(instance_ids), caps)

ClassStats(instance_ids, p) ==
  [total |-> Len(instance_ids),
   with_caption |-> Len(p.with_captions),
   without_caption |-> Len(p.missing_captions)]

\* the loop over pcn_instances[split].items()
RECURSIVE AnalyzeSplit(_, _, _)
AnalyzeSplit(acc, items, caps) ==
  IF items = <<>> THEN acc
  ELSE LET class_id == Head(items).k
           instance_ids == Head(items).v
           p == PartitionIds([with_captions |-> <<>>, missing_captions |-> <<>>],
                             class_id, instance_ids, caps)
       IN AnalyzeSplit(
            [without |-> DictSet(acc.without, class_id, p.missing_captions),
             stats |-> DictSet(acc.stats, class_id, ClassStats(instance_ids, p))],
            Tail(items), caps)

\* AllPcnInstances, had it gathered the first split only
AllPcnInstances_FirstSplit(instances) ==
  UNION {{FullId(instances[splits[1]][i].k, instances[splits[1]][i].v[j]) :
            j \in 1..Len(instances[splits[1]][i].v)} :
         i \in 1..Len(instances[splits[1]])}

\* all_pcn_instances: the full ids of every split
AllPcnInstances(instances) ==
  UNION {UNION {{FullId(instances[s][i].k, instances[s][i].v[j]) :
                   j \in 1..Len(instances[s][i].v)} :
                i \in 1..Len(instances[s])} :
         s \in Splits}

\* CaptionWithoutPcn, had it assigned a one-id list instead of appending
RECURSIVE CaptionWithoutPcn_Overwrite(_, _, _)
CaptionWithoutPcn_Overwrite(acc, items, all_pcn_instances) ==
  IF items = <<>> THEN acc
  ELSE CaptionWithoutPcn_Overwrite(
         IF Head(items).k \notin all_pcn_instances
         THEN DictSet(acc, SplitFirst(Head(items).k), <<Head(items).k>>)
         ELSE acc,
         Tail(items), all_pcn_instances)

\* the loop over captions.keys(): ids no split holds, grouped by class id
RECURSIVE CaptionWithoutPcn(_, _, _)
CaptionWithoutPcn(acc, items, all_pcn_instances) ==
  IF items = <<>> THEN acc
  ELSE LET instance_id == Head(items).k
           class_id == SplitFirst(instance_id)
       IN CaptionWithoutPcn(
            IF instance_id \notin all_pcn_instances
            THEN DictSet(acc, class_id,
                         Append(IF DictHas(acc, class_id) THEN DictGet(acc, class_id)
                                ELSE <<>>,
                                instance_id))
            ELSE acc,
            Tail(items), all_pcn_instances)

\* analyze_missing_captions, had missing_captions been one list shared by the
\* classes of a split (initialised outside the loop over the classes)
RECURSIVE SharedMissing(_, _, _)
SharedMissing(shared, items, caps) ==
  IF items = <<>> THEN <<>>
  ELSE LET p == PartitionIds([with_captions |-> <<>>, missing_captions |-> shared],
                             Head(items).k, Head(items).v, caps)
       IN <<[k |-> Head(items).k, v |-> p.missing_captions]>>
            \o SharedMissing(p.missing_captions, Tail(items), caps)

analyze_missing_captions_SharedList(instances, caps) ==
  LET a == [s \in Splits |->
              AnalyzeSplit([without |-> <<>>, stats |-> <<>>], instances[s], caps)]
  IN [pcn_without_caption |-> [s \in Splits |-> SharedMissing(<<>>, instances[s], caps)],
      caption_without_pcn |-> CaptionWithoutPcn(<<>>, caps, AllPcnInstances(instances)),
      stats_by_split |-> [s \in Splits |-> a[s].stats],
      total_stats |-> <<>>]

analyze_missing_captions(instances, caps) ==
  LET a == [s \in Splits |->
              AnalyzeSplit([without |-> <<>>, stats |-> <<>>], instances[s], caps)]
  IN [pcn_without_caption |-> [s \in Splits |-> a[s].without],
      caption_without_pcn |-> CaptionWithoutPcn(<<>>, caps, AllPcnInstances(instances)),
      stats_by_split |-> [s \in Splits |-> a[s].stats],
      total_stats |-> <<>>]

(***************************************************************************)
(* main                                                                    *)
(***************************************************************************)
\* `not captions or not pcn_instances`
LoadCheckFails == captions = <<>> \/ DOMAIN pcn_instances = {}

\* the failure message is printed and main returns
MainFailed ==
  /\ pc = "scanned"
  /\ LoadCheckFails
  /\ pc' = "failed"
  /\ UNCHANGED <<inputs, prog, captions, class_ids_csv, rows_read, load_failed, pcn_instances,
                 class_ids_pcn, warned, results, report, exc, saved, json_file,
                 prev_captions>>

AnalyzeMissingCaptions ==
  /\ pc = "scanned"
  /\ ~LoadCheckFails
  /\ results' = analyze_missing_captions(pcn_instances, captions)
  /\ pc' = "analyzed"
  /\ UNCHANGED <<inputs, prog, captions, class_ids_csv, rows_read, load_failed, pcn_instances,
                 class_ids_pcn, warned, report, exc, saved, json_file, prev_captions>>

(***************************************************************************)
(* print_detailed_report: the statistics by split and the overall lines    *)
(***************************************************************************)
\* f"{a/b*100:.1f}" in tenths of a percent (round half to even); b is not 0.
\* The float a/b*100 rounds as the exact quotient does for the small counts here.
Percent(a, b) ==
  LET q == (a * 1000) \div b
      r == (a * 1000) % b
  IN IF 2 * r < b THEN q
     ELSE IF 2 * r > b THEN q + 1
     ELSE IF q % 2 = 0 THEN q ELSE q + 1

\* the loop over results['stats_by_split'][split].items()
RECURSIVE SumStats(_, _)
SumStats(acc, items) ==
  IF items = <<>> THEN acc
  ELSE SumStats([with_caption |-> acc.with_caption + Head(items).v.with_caption,
                 without_caption |-> acc.without_caption + Head(items).v.without_caption,
                 total |-> acc.total + Head(items).v.total],
                Tail(items))

\* SplitSums, had split_total summed the with_caption counts
SplitSums_WrongTotal(stats) ==
  LET t == SumStats([with_caption |-> 0, without_caption |-> 0, total |-> 0], stats)
  IN [t EXCEPT !.total = t.with_caption]

SplitSums(stats) == SumStats([with_caption |-> 0, without_caption |-> 0, total |-> 0], stats)

StatLine(kind, split, t) ==
  [kind |-> kind, split |-> split, total |-> t.total,
   with_caption |-> t.with_caption, pct_with |-> Percent(t.with_caption, t.total),
   without_caption |-> t.without_caption,
   pct_without |-> Percent(t.without_caption, t.total)]

\* the loop over the splits, then the overall lines; a division by a zero
\* total raises ZeroDivisionError and ends the report where it stands
RECURSIVE ReportSplits(_, _, _)
ReportSplits(acc, i, stats_by_split) ==
  IF i > Len(splits)
  THEN IF acc.totals.total = 0
       THEN [acc EXCEPT !.exc = "ZeroDivisionError"]
       ELSE [acc EXCEPT !.lines = Append(@, StatLine("overall", "", acc.totals))]
  ELSE LET split == splits[i]
           t == SplitSums(stats_by_split[split])
           totals == [with_caption |-> acc.totals.with_caption + t.with_caption,
                      without_caption |-> acc.totals.without_caption + t.without_caption,
                      total |-> acc.totals.total + t.total]
       IN IF t.total = 0
          THEN [acc EXCEPT !.totals = totals, !.exc = "ZeroDivisionError"]
          ELSE ReportSplits([lines |-> Append(acc.lines, StatLine("split", split, t)),
                             totals |-> totals, exc |-> ""],
                            i + 1, stats_by_split)

print_detailed_report(res) ==
  ReportSplits([lines |-> <<>>,
                totals |-> [with_caption |-> 0, without_caption |-> 0, total |-> 0],
                exc |-> ""],
               1, res.stats_by_split)

PrintDetailedReport ==
  /\ pc = "analyzed"
  /\ LET r == print_detailed_report(results)
     IN /\ report' = r.lines
        /\ exc' = r.exc
        /\ pc' = IF r.exc = "" THEN "reported" ELSE "error"
  /\ UNCHANGED <<inputs, prog, captions, class_ids_csv, rows_read, load_failed, pcn_instances,
                 class_ids_pcn, warned, results, saved, json_file, prev_captions>>

(***************************************************************************)
(* save_detailed_results                                                   *)
(***************************************************************************)
RECURSIVE FullIds(_, _)
FullIds(class_id, instances) ==
  IF instances = <<>> THEN <<>>
  ELSE <<FullId(class_id, Head(instances))>> \o FullIds(class_id, Tail(instances))

\* pcn_without_captions_<split>.txt: a block per class that misses captions
RECURSIVE MissingBlocks(_)
MissingBlocks(items) ==
  IF items = <<>> THEN <<>>
  ELSE (IF Head(items).v # <<>>
        THEN <<[class_id |-> Head(items).k,
                lines |-> FullIds(Head(items).k, Head(items).v)]>>
        ELSE <<>>)
         \o MissingBlocks(Tail(items))

\* captions_without_pcn.txt: a block per class
RECURSIVE CaptionBlocks(_)
CaptionBlocks(items) ==
  IF items = <<>> THEN <<>>
  ELSE <<[class_id |-> Head(items).k, lines |-> Head(items).v]>>
         \o CaptionBlocks(Tail(items))

save_detailed_results(res) ==
  [written |-> {"pcn_without_captions_" \o s \o ".txt" : s \in Splits}
                 \cup (IF res.caption_without_pcn # <<>>
                       THEN {"captions_without_pcn.txt"} ELSE {}),
   by_split |-> [s \in Splits |-> MissingBlocks(res.pcn_without_caption[s])],
   captions_without_pcn |-> CaptionBlocks(res.caption_without_pcn)]

\* args.save_results is set
SaveDetailedResults ==
  /\ pc = "reported"
  /\ saved' = save_detailed_results(results)
  /\ pc' = "done"
  /\ UNCHANGED <<inputs, prog, captions, class_ids_csv, rows_read, load_failed, pcn_instances,
                 class_ids_pcn, warned, results, report, exc, json_file, prev_captions>>

\* args.save_results is not set
MainReturn ==
  /\ pc = "reported"
  /\ pc' = "done"
  /\ UNCHANGED <<inputs, prog, captions, class_ids_csv, rows_read, load_failed, pcn_instances,
                 class_ids_pcn, warned, results, report, exc, saved, json_file,
                 prev_captions>>

(***************************************************************************)
(* quick_summary                                                           *)
(***************************************************************************)
\* captions[row[0].strip()] = row[1].strip() for the rows of two fields or more
RECURSIVE QuickLoad(_, _)
QuickLoad(caps, rows) ==
  IF rows = <<>> THEN caps
  ELSE QuickLoad(IF Len(Head(rows)) >= 2
                 THEN DictSet(caps, Strip(Head(rows)[1]), Strip(Head(rows)[2]))
                 ELSE caps,
                 Tail(rows))

\* the loop over the .pcd files of one class directory
RECURSIVE QuickCountFiles(_, _, _, _)
QuickCountFiles(acc, class_id, files, caps) ==
  IF files = <<>> THEN acc
  ELSE QuickCountFiles(
         IF Head(files).ext = "pcd"
         THEN [count |-> acc.count + 1,
               with |-> acc.with
                          + (IF DictHas(caps, FullId(class_id, Head(files).stem))
                             THEN 1 ELSE 0)]
         ELSE acc,
         class_id, Tail(files), caps)

\* the loop over complete_path.iterdir()
RECURSIVE QuickCountEntries(_, _, _)
QuickCountEntries(acc, entries, caps) ==
  IF entries = <<>> THEN acc
  ELSE QuickCountEntries(
         IF Head(entries).isDir
         THEN QuickCountFiles(acc, Head(entries).name, Head(entries).files, caps)
         ELSE acc,
         Tail(entries), caps)

QuickCount(tree, caps) ==
  IF tree.exists
  THEN QuickCountEntries([count |-> 0, with |-> 0], tree.entries, caps)
  ELSE [count |-> 0, with |-> 0]

\* sum(d.values()) of a dict keyed by the three splits
RECURSIVE SumSplits(_, _)
SumSplits(f, i) == IF i > Len(splits) THEN 0 ELSE f[splits[i]] + SumSplits(f, i + 1)

\* the per-split lines: coverage is 0 when the split has no instance
QuickSplitLine(split, with, count) ==
  [kind |-> "quick_split", split |-> split, total |-> count, with_caption |-> with,
   pct_with |-> IF count > 0 THEN Percent(with, count) ELSE 0]

\* the printed summary; the overall percentages divide by total_pcn unguarded
quick_summary(rows, path) ==
  LET caps == QuickLoad(<<>>, rows)
      pcn_counts == [s \in Splits |-> QuickCount(path[s], caps).count]
      pcn_with_captions == [s \in Splits |-> QuickCount(path[s], caps).with]
      total_pcn == SumSplits(pcn_counts, 1)
      total_with_captions == SumSplits(pcn_with_captions, 1)
  IN IF total_pcn = 0
     THEN [captions |-> caps, lines |-> <<>>, exc |-> "ZeroDivisionError"]
     ELSE [captions |-> caps,
           lines |-> <<StatLine("quick_overall", "",
                                [total |-> total_pcn,
                                 with_caption |-> total_with_captions,
                                 without_caption |-> total_pcn - total_with_captions])>>
                       \o [i \in 1..Len(splits) |->
                             QuickSplitLine(splits[i], pcn_with_captions[splits[i]],
                                            pcn_counts[splits[i]])],
           exc |-> ""]

\* open() and the reader are not guarded here: an error ends the script
QuickSummary ==
  /\ pc = "start"
  /\ \E r \in Readings(csv_file) :
       /\ rows_read' = r.good
       /\ IF r.raises
          THEN /\ exc' = "ReadError"
               /\ pc' = "error"
               /\ UNCHANGED <<captions, report>>
          ELSE LET q == quick_summary(csv_file, pcn_path)
               IN /\ captions' = q.captions
                  /\ report' = q.lines
                  /\ exc' = q.exc
                  /\ pc' = IF q.exc = "" THEN "done" ELSE "error"
  /\ prog' = "quick"
  /\ UNCHANGED <<inputs, class_ids_csv, load_failed, pcn_instances, class_ids_pcn,
                 warned, results, saved, json_file, prev_captions>>

(***************************************************************************)
(* cap3d_to_json                                                           *)
(***************************************************************************)
\* data_dict[row[0].strip()] = row[1].strip() for the rows of two fields or more
RECURSIVE JsonLoad(_, _)
JsonLoad(data_dict, rows) ==
  IF rows = <<>> THEN data_dict
  ELSE LET row == Head(rows)
       IN JsonLoad(IF Len(row) >= 2
                   THEN LET key == Strip(row[1])
                            value == Strip(row[2])
                        IN DictSet(data_dict, key, value)
                   ELSE data_dict,
                   Tail(rows))

cap3d_to_json(rows) == JsonLoad(<<>>, rows)

Cap3dToJson ==
  /\ pc = "start"
  /\ \E r \in Readings(csv_file) :
       /\ rows_read' = r.good
       /\ IF r.raises
          THEN /\ exc' = "ReadError"
               /\ pc' = "error"
               /\ UNCHANGED <<captions, json_file>>
          ELSE /\ captions' = cap3d_to_json(csv_file)
               /\ json_file' = cap3d_to_json(csv_file)
               /\ exc' = ""
               /\ pc' = "done"
  /\ prog' = "cap3d"
  /\ UNCHANGED <<inputs, class_ids_csv, load_failed, pcn_instances, class_ids_pcn,
                 warned, results, report, saved, prev_captions>>

(***************************************************************************)
(* Running a script again over the same table and tree                     *)
(***************************************************************************)
Ended == pc \in {"done", "failed", "error"}

\* the run read the whole caption table
Loaded == pc # "start" /\ ~load_failed /\ exc # "ReadError"

Rerun ==
  /\ Ended
  /\ prev_captions' = IF Loaded THEN [known |-> TRUE, dict |-> captions]
                      ELSE prev_captions
  /\ prog' = ""
  /\ pc' = "start"
  /\ captions' = <<>>
  /\ class_ids_csv' = {}
  /\ rows_read' = 0
  /\ load_failed' = FALSE
  /\ pcn_instances' = EmptyBySplit
  /\ class_ids_pcn' = {}
  /\ warned' = {}
  /\ results' = NoResults
  /\ report' = <<>>
  /\ exc' = ""
  /\ saved' = NoSaved
  /\ json_file' = <<>>
  /\ UNCHANGED inputs

Next ==
  \/ LoadCaptionData
  \/ GetPcnInstances
  \/ MainFailed
  \/ AnalyzeMissingCaptions
  \/ PrintDetailedReport
  \/ SaveDetailedResults
  \/ MainReturn
  \/ QuickSummary
  \/ Cap3dToJson
  \/ Rerun

Spec == Init /\ [][Next]_vars

(***************************************************************************)
(* Vocabulary of the properties                                            *)
(***************************************************************************)
\* get_pcn_instances has returned in this run of the analysis script
Scanned == prog = "analyze" /\ pc \notin {"start", "loaded"}

\* analyze_missing_captions has returned in this run
Analyzed ==
  prog = "analyze" /\ (pc \in {"analyzed", "reported", "done"} \/ exc # "")

\* the instances of a split: <<class id, instance id>> for every listed id
InstancesOf(s) ==
  UNION {{<<pcn_instances[s][i].k, pcn_instances[s][i].v[j]>> :
            j \in 1..Len(pcn_instances[s][i].v)} :
         i \in 1..Len(pcn_instances[s])}

\* the full ids of a split, and of the whole inventory
FullIdsOf(s) == {FullId(x[1], x[2]) : x \in InstancesOf(s)}
InventoryIds == UNION {FullIdsOf(s) : s \in Splits}

\* how often x is an element of the list q
Occurrences(q, x) == Cardinality({i \in 1..Len(q) : q[i] = x})

RECURSIVE SeqSum(_)
SeqSum(q) == IF q = <<>> THEN 0 ELSE Head(q) + SeqSum(Tail(q))

\* the part of an identifier before its first underscore, all of it if it has none
DerivedClass(id) ==
  LET at == {i \in 1..Len(id) : id[i] = US}
  IN IF at = {} THEN id
     ELSE SubSeq(id, 1, (CHOOSE i \in at : \A j \in at : i <= j) - 1)

\* the ids of q, in order, that satisfy no caption key under class_id
Uncaptioned(class_id, q) ==
  SelectSeq(q, LAMBDA l : ~DictHas(captions, FullId(class_id, l)))

(***************************************************************************)
(* C1: in every record of stats_by_split, with_caption + without_caption = *)
(* total, and total is the number of ids the inventory lists for that      *)
(* split and class; the totals of a split's report line are the sums of    *)
(* the split's per-class counts, and the overall line's totals are the     *)
(* sums of the three split lines.                                          *)
(***************************************************************************)
C1_RecordsAddUp ==
  \A s \in Splits :
    /\ DictKeys(results.stats_by_split[s]) = DictKeys(pcn_instances[s])
    /\ Len(results.stats_by_split[s]) = Len(pcn_instances[s])
    /\ \A c \in DictKeys(pcn_instances[s]) :
         LET st == DictGet(results.stats_by_split[s], c)
         IN /\ st.with_caption + st.without_caption = st.total
            /\ st.total = Len(DictGet(pcn_instances[s], c))

C1_LineSums(line, q) ==
  /\ line.total = SeqSum([i \in 1..Len(q) |-> q[i].total])
  /\ line.with_caption = SeqSum([i \in 1..Len(q) |-> q[i].with_caption])
  /\ line.without_caption = SeqSum([i \in 1..Len(q) |-> q[i].without_caption])

C1_ReportAddsUp ==
  /\ \A i \in 1..Len(report) :
       /\ report[i].kind = "split" =>
            /\ report[i].split = splits[i]
            /\ LET st == results.stats_by_split[report[i].split]
               IN C1_LineSums(report[i], [j \in 1..Len(st) |-> st[j].v])
       /\ report[i].kind = "overall" =>
            /\ i = Len(splits) + 1
            /\ C1_LineSums(report[i], SubSeq(report, 1, Len(splits)))
  /\ pc \in {"reported", "done"} =>
       /\ Len(report) = Len(splits) + 1
       /\ report[Len(report)].kind = "overall"
       /\ \A i \in 1..Len(splits) : report[i].kind = "split"

\* C1: after the analysis the records add up, and so do the report lines printed
C1_CountsAddUp == Analyzed => C1_RecordsAddUp /\ C1_ReportAddsUp

\* the report ran to its end over an inventory with and without captions
C1_Witness ==
  /\ prog = "analyze"
  /\ pc = "reported"
  /\ report[Len(report)].with_caption > 0
  /\ report[Len(report)].without_caption > 0
  /\ \E s \in Splits : Len(results.stats_by_split[s]) > 1

(***************************************************************************)
(* C3: an identifier that is a key of the caption map and the full id of   *)
(* an instance of any split is in no list of caption_without_pcn.          *)
(***************************************************************************)
C3_InBothNeverUnmatched ==
  Analyzed =>
    \A id \in DictKeys(captions) \cap InventoryIds :
      \A i \in 1..Len(results.caption_without_pcn) :
        Occurrences(results.caption_without_pcn[i].v, id) = 0

\* an id in both sources that only a later split holds, beside an unmatched caption
C3_Witness ==
  /\ Analyzed
  /\ \E id \in DictKeys(captions) \cap FullIdsOf("val") :
       id \notin FullIdsOf("test") \cup FullIdsOf("train")
  /\ results.caption_without_pcn # <<>>

(***************************************************************************)
(* C9: for every split and class, without_caption is the inventory's id    *)
(* list with the ids that have a caption removed (same order, same         *)
(* multiplicity), and the counts are the sizes of the two parts.           *)
(***************************************************************************)
C9_PartitionInOrder ==
  Analyzed =>
    \A s \in Splits :
      /\ DictKeys(results.pcn_without_caption[s]) = DictKeys(pcn_instances[s])
      /\ \A c \in DictKeys(pcn_instances[s]) :
           LET ids == DictGet(pcn_instances[s], c)
               st == DictGet(results.stats_by_split[s], c)
           IN /\ DictGet(results.pcn_without_caption[s], c) = Uncaptioned(c, ids)
              /\ st.total = Len(ids)
              /\ st.without_caption = Len(Uncaptioned(c, ids))
              /\ st.with_caption = Len(ids) - Len(Uncaptioned(c, ids))

\* the spec's example up to names: captions {a_c, a}, train: {a: [b_c, c]}
\* gives total 2, with_caption 1, without_caption [b_c] and unmatched {a: [a]}
C9_Witness ==
  /\ Analyzed
  /\ DictKeys(captions) = {<<"a", US, "c">>, <<"a">>}
  /\ pcn_instances["train"] = <<[k |-> <<"a">>, v |-> << <<"b", US, "c">>, <<"c">> >>]>>
  /\ pcn_instances["test"] = <<>> /\ pcn_instances["val"] = <<>>
  /\ results.stats_by_split["train"] =
       <<[k |-> <<"a">>, v |-> [total |-> 2, with_caption |-> 1, without_caption |-> 1]]>>
  /\ results.pcn_without_caption["train"] = <<[k |-> <<"a">>, v |-> << <<"b", US, "c">> >>]>>
  /\ results.caption_without_pcn = <<[k |-> <<"a">>, v |-> << <<"a">> >>]>>

(***************************************************************************)
(* C10: every caption key that is the full id of no instance is exactly    *)
(* once in caption_without_pcn, in the bucket of its derived class id (the *)
(* part before the first underscore, the whole key if it has none), and    *)
(* no bucket is empty.                                                     *)
(***************************************************************************)
C10_UnmatchedBucketed ==
  Analyzed =>
    LET g == results.caption_without_pcn
    IN /\ \A id \in DictKeys(captions) \ InventoryIds :
            /\ DictHas(g, DerivedClass(id))
            /\ \A i \in 1..Len(g) :
                 Occurrences(g[i].v, id) = IF g[i].k = DerivedClass(id) THEN 1 ELSE 0
       /\ \A i \in 1..Len(g) : g[i].v # <<>>
       /\ \A i, j \in 1..Len(g) : g[i].k = g[j].k => i = j

\* two unmatched keys share a bucket, and a key without underscore is unmatched
C10_Witness ==
  /\ Analyzed
  /\ \E i \in 1..Len(results.caption_without_pcn) :
       Len(results.caption_without_pcn[i].v) > 1
  /\ <<"a">> \in DictKeys(captions) \ InventoryIds

(***************************************************************************)
(* C4: every instance whose full id is no caption key has its id exactly   *)
(* once in its own class's without_caption list of its split, so that the  *)
(* classes of a split that list a full id are the classes of the split     *)
(* that hold an instance with that full id, and no list of a split the id  *)
(* does not occur in has it. The files written list the same.              *)
(***************************************************************************)
\* the classes of split s whose without_caption list shows the full id
ClassesListing(s, id) ==
  {c \in DictKeys(results.pcn_without_caption[s]) :
     \E l \in Range(DictGet(results.pcn_without_caption[s], c)) : FullId(c, l) = id}

\* the classes of split s that hold an instance with the full id
ClassesHolding(s, id) == {x[1] : x \in {y \in InstancesOf(s) : FullId(y[1], y[2]) = id}}

\* the lines of the file written for split s, as <<class id of the block, line>>
WrittenLines(s) ==
  UNION {{<<saved.by_split[s][i].class_id, saved.by_split[s][i].lines[j]>> :
            j \in 1..Len(saved.by_split[s][i].lines)} :
         i \in 1..Len(saved.by_split[s])}

\* C4 (amended): each uncaptioned instance is listed once, under its own class
C4_MissingListedPerInstance ==
  Analyzed =>
    /\ \A s \in Splits :
         /\ \A x \in InstancesOf(s) :
              ~DictHas(captions, FullId(x[1], x[2])) =>
                Occurrences(DictGet(results.pcn_without_caption[s], x[1]), x[2]) = 1
         /\ \A id \in InventoryIds \ DictKeys(captions) :
              ClassesListing(s, id) = ClassesHolding(s, id)
    /\ "pcn_without_captions_test.txt" \in saved.written =>
         \A s \in Splits :
           WrittenLines(s) =
             {<<x[1], FullId(x[1], x[2])>> :
                x \in {y \in InstancesOf(s) : ~DictHas(captions, FullId(y[1], y[2]))}}

\* C4 (as stated): every uncaptioned full id is listed by exactly one class of
\* each split it occurs in, and by none of a split it does not occur in
C4_ExactlyOneClass ==
  Analyzed =>
    \A s \in Splits :
      \A id \in InventoryIds \ DictKeys(captions) :
        Cardinality(ClassesListing(s, id)) = IF id \in FullIdsOf(s) THEN 1 ELSE 0

\* an uncaptioned id that one split holds and another does not, an uncaptioned
\* id that two classes of a split share, and the results saved
C4_Witness ==
  /\ prog = "analyze"
  /\ pc = "done"
  /\ "pcn_without_captions_test.txt" \in saved.written
  /\ captions # <<>>
  /\ \E id \in InventoryIds \ DictKeys(captions) :
       \E s, t \in Splits : id \in FullIdsOf(s) /\ id \notin FullIdsOf(t)
  /\ \E id \in InventoryIds \ DictKeys(captions) :
       \E s \in Splits : Cardinality(ClassesListing(s, id)) = 2

(***************************************************************************)
(* C5: when reading the caption table raises, load_caption_data raises     *)
(* nothing and returns an empty dict and an empty class set, whatever rows *)
(* were stored before; main then prints the failure message and returns    *)
(* without analysis, report or export.                                     *)
(***************************************************************************)
C5_UnreadableSourceEndsRun ==
  prog = "analyze" /\ load_failed =>
    /\ captions = <<>>
    /\ class_ids_csv = {}
    /\ exc = ""
    /\ pc \in {"loaded", "scanned", "failed"}
    /\ results = NoResults
    /\ report = <<>>
    /\ saved = NoSaved

\* the reader raised after a row had been stored, and main has returned
C5_Witness ==
  /\ prog = "analyze"
  /\ load_failed
  /\ pc = "failed"
  /\ rows_read > 0
  /\ Len(csv_file[1]) >= 2

(***************************************************************************)
(* C6: get_pcn_instances fails for no set of missing splits: a missing     *)
(* split gets an empty mapping (and a warning), and every other split gets *)
(* exactly the directories under its subtree as classes, each with the     *)
(* stems of its .pcd files.                                                *)
(***************************************************************************)
C6_MissingSplitsSkipped ==
  Scanned =>
    /\ pc = "scanned" => exc = ""
    /\ DOMAIN pcn_instances = Splits
    /\ warned = {s \in Splits : ~pcn_path[s].exists}
    /\ \A s \in Splits :
         IF ~pcn_path[s].exists
         THEN pcn_instances[s] = <<>>
         ELSE LET dirs == {e \in Range(pcn_path[s].entries) : e.isDir}
              IN /\ DictKeys(pcn_instances[s]) = {e.name : e \in dirs}
                 /\ Len(pcn_instances[s]) = Cardinality(dirs)
                 /\ \A e \in dirs :
                      LET ids == DictGet(pcn_instances[s], e.name)
                          pcd == {f \in Range(e.files) : f.ext = "pcd"}
                      IN /\ Range(ids) = {f.stem : f \in pcd}
                         /\ Len(ids) = Cardinality(pcd)
    /\ class_ids_pcn = UNION {DictKeys(pcn_instances[s]) : s \in Splits}

\* the first split is missing and a later one holds instances
C6_Witness ==
  /\ Scanned
  /\ ~pcn_path["test"].exists
  /\ ~pcn_path["train"].exists
  /\ InstancesOf("val") # {}

(***************************************************************************)
(* C7: no split mapping of the inventory has a class with an empty id      *)
(* list, and no record of stats_by_split has total 0.                      *)
(***************************************************************************)
C7_NoEmptyClass ==
  /\ Scanned =>
       \A s \in Splits : \A i \in 1..Len(pcn_instances[s]) : pcn_instances[s][i].v # <<>>
  /\ Analyzed =>
       \A s \in Splits :
         \A i \in 1..Len(results.stats_by_split[s]) :
           results.stats_by_split[s][i].v.total # 0

(***************************************************************************)
(* C8: the caption dict a script loads maps every trimmed identifier of a  *)
(* row of two fields or more to the trimmed caption of the last such row   *)
(* with that identifier, and nothing else; a second load of the same table *)
(* gives the same dict. The three scripts agree.                           *)
(***************************************************************************)
\* the rows that count, by index
ValidRows == {i \in 1..Len(csv_file) : Len(csv_file[i]) >= 2}
LastRowOf(id) ==
  CHOOSE i \in ValidRows :
    /\ Strip(csv_file[i][1]) = id
    /\ \A j \in ValidRows : Strip(csv_file[j][1]) = id => j <= i

C8_IsLastWins(d) ==
  /\ DictKeys(d) = {Strip(csv_file[i][1]) : i \in ValidRows}
  /\ Len(d) = Cardinality(DictKeys(d))
  /\ \A id \in DictKeys(d) : DictGet(d, id) = Strip(csv_file[LastRowOf(id)][2])

\* C8: what a script has loaded is the last-write-wins dict, also on a second load
C8_LastWriteWins ==
  Loaded =>
    /\ C8_IsLastWins(captions)
    /\ prog = "cap3d" => json_file = captions
    /\ prev_captions.known => captions = prev_captions.dict

\* a second load of a table where a later row overwrites an untrimmed duplicate
C8_Witness ==
  /\ Loaded
  /\ prev_captions.known
  /\ Len(csv_file) = 2
  /\ ValidRows = {1, 2}
  /\ csv_file[1][1] # csv_file[2][1]
  /\ Len(captions) = 1
  /\ captions[1].v # Strip(csv_file[1][2])

(***************************************************************************)
(* C2: a percentage asked for over a total of 0 is 0, and no script ends   *)
(* in a division by zero (detailed report and quick summary, per-split and *)
(* overall lines).                                                         *)
(***************************************************************************)
C2_EmptySplitIsZeroPercent ==
  /\ exc # "ZeroDivisionError"
  /\ prog \in {"analyze", "quick"} /\ pc \in {"reported", "done"} =>
       /\ \A s \in Splits : \E i \in 1..Len(report) : report[i].split = s
       /\ \A i \in 1..Len(report) : report[i].total = 0 => report[i].pct_with = 0

====
